---- MODULE Spec2Model ----
(***************************************************************************)
(* Translation App Cost & Performance Calculator (src/cost_calculator.py). *)
(*                                                                         *)
(* The program is a Streamlit script: every change of a sidebar widget     *)
(* re-runs the whole script top to bottom with the widgets' current        *)
(* values.  The state is the widgets' values and the values the last run   *)
(* of the script computed.  One action per widget: it sets the widget and  *)
(* runs the script.                                                        *)
(*                                                                         *)
(* Python's float is IEEE-754 binary64.  A float is modelled exactly, as   *)
(* s * m * 2^e with m an odd natural number of at most 53 bits held in     *)
(* limbs of 15 bits (TLC's integers are 32 bits wide), and every           *)
(* arithmetic operation rounds to nearest, ties to even, as the hardware   *)
(* does.  Overflow, underflow and NaN are out of the model: no value of    *)
(* the script leaves the normal range.  Python's int is unbounded; every   *)
(* int of the model stays below 2^31.                                      *)
(***************************************************************************)
EXTENDS Integers, Sequences, FiniteSets, TLC

(***************************************************************************)
(* Natural numbers of any size: little-endian sequences of limbs.          *)
(***************************************************************************)
Base == 32768
LimbBits == 15
MantBits == 53

Pow2[k \in 0..15] == IF k = 0 THEN 1 ELSE 2 * Pow2[k-1]

Limb(a, i) == IF i <= Len(a) THEN a[i] ELSE 0
Max2(x, y) == IF x >= y THEN x ELSE y
Min2(x, y) == IF x <= y THEN x ELSE y

RECURSIVE BigNorm(_)
BigNorm(a) ==
  IF Len(a) = 0 THEN a
  ELSE IF a[Len(a)] = 0 THEN BigNorm(SubSeq(a, 1, Len(a) - 1)) ELSE a

RECURSIVE BigFromNat(_)
BigFromNat(n) == IF n = 0 THEN <<>> ELSE <<n % Base>> \o BigFromNat(n \div Base)

RECURSIVE BigToNat(_)
BigToNat(a) == IF Len(a) = 0 THEN 0 ELSE a[1] + Base * BigToNat(Tail(a))

RECURSIVE BigAddRec(_, _, _, _)
BigAddRec(a, b, i, c) ==
  IF i > Len(a) /\ i > Len(b)
  THEN (IF c = 0 THEN <<>> ELSE <<c>>)
  ELSE LET s == Limb(a, i) + Limb(b, i) + c
       IN <<s % Base>> \o BigAddRec(a, b, i + 1, s \div Base)
BigAdd(a, b) == BigAddRec(a, b, 1, 0)

RECURSIVE BigSubRec(_, _, _, _)
BigSubRec(a, b, i, c) ==
  IF i > Len(a) THEN <<>>
  ELSE LET d == a[i] - Limb(b, i) - c
       IN IF d < 0 THEN <<d + Base>> \o BigSubRec(a, b, i + 1, 1)
                   ELSE <<d>> \o BigSubRec(a, b, i + 1, 0)
BigSub(a, b) == BigNorm(BigSubRec(a, b, 1, 0))

RECURSIVE BigCmpRec(_, _, _)
BigCmpRec(a, b, i) ==
  IF i = 0 THEN 0
  ELSE IF a[i] > b[i] THEN 1
  ELSE IF a[i] < b[i] THEN -1
  ELSE BigCmpRec(a, b, i - 1)
BigCmp(a, b) ==
  IF Len(a) > Len(b) THEN 1
  ELSE IF Len(a) < Len(b) THEN -1
  ELSE BigCmpRec(a, b, Len(a))

RECURSIVE BigMulSmallRec(_, _, _, _)
BigMulSmallRec(a, k, i, c) ==
  IF i > Len(a) THEN (IF c = 0 THEN <<>> ELSE <<c>>)
  ELSE LET p == a[i] * k + c
       IN <<p % Base>> \o BigMulSmallRec(a, k, i + 1, p \div Base)
BigMulSmall(a, k) == IF k = 0 THEN <<>> ELSE BigMulSmallRec(a, k, 1, 0)

Zeros(n) == [i \in 1..n |-> 0]

RECURSIVE BigMulRec(_, _, _)
BigMulRec(a, b, j) ==
  IF j > Len(b) THEN <<>>
  ELSE BigAdd(Zeros(j - 1) \o BigMulSmall(a, b[j]), BigMulRec(a, b, j + 1))
BigMul(a, b) == IF Len(a) = 0 \/ Len(b) = 0 THEN <<>> ELSE BigMulRec(a, b, 1)

\* short division by k < 2^16: quotient limbs (little endian) and remainder
RECURSIVE BigDivSmallRec(_, _, _, _)
BigDivSmallRec(a, k, i, r) ==
  IF i = 0 THEN [q |-> <<>>, r |-> r]
  ELSE LET cur == r * Base + a[i]
           rest == BigDivSmallRec(a, k, i - 1, cur % k)
       IN [q |-> rest.q \o <<cur \div k>>, r |-> rest.r]
BigDivSmall(a, k) ==
  LET d == BigDivSmallRec(a, k, Len(a), 0) IN [q |-> BigNorm(d.q), r |-> d.r]

RECURSIVE IntBitLen(_)
IntBitLen(n) == IF n = 0 THEN 0 ELSE 1 + IntBitLen(n \div 2)
BitLen(a) == IF Len(a) = 0 THEN 0 ELSE LimbBits * (Len(a) - 1) + IntBitLen(a[Len(a)])

ShiftLeft(a, n) ==
  IF Len(a) = 0 THEN a
  ELSE Zeros(n \div LimbBits) \o BigMulSmall(a, Pow2[n % LimbBits])

ShiftRight(a, n) ==
  LET w == n \div LimbBits
  IN IF w >= Len(a) THEN <<>>
     ELSE BigDivSmall(SubSeq(a, w + 1, Len(a)), Pow2[n % LimbBits]).q

\* a mod 2^n = 0
LowBitsZero(a, n) ==
  LET w == n \div LimbBits
  IN /\ \A i \in 1..Min2(w, Len(a)) : a[i] = 0
     /\ (w < Len(a) => a[w + 1] % Pow2[n % LimbBits] = 0)

RECURSIVE IntTrailingZeros(_)
IntTrailingZeros(n) == IF n % 2 = 1 THEN 0 ELSE 1 + IntTrailingZeros(n \div 2)
RECURSIVE TrailingZeros(_, _)
TrailingZeros(a, i) ==
  IF a[i] = 0 THEN LimbBits + TrailingZeros(a, i + 1) ELSE IntTrailingZeros(a[i])

IsOdd(a) == Len(a) > 0 /\ a[1] % 2 = 1

FZero == [s |-> 1, m |-> <<>>, e |-> 0]

\* s * m * 2^e with the factors of two moved from m into the exponent
Reduced(s, m, e, tz) == [s |-> s, m |-> ShiftRight(m, tz), e |-> e + tz]
Canon(s, m, e) ==
  IF Len(m) = 0 THEN FZero ELSE Reduced(s, m, e, TrailingZeros(m, 1))

\* n / 2^sh to the nearest integer, ties to even (sh >= 1); q2 is n / 2^(sh-1)
\* and q is n / 2^sh, both rounded down
NearestEven(n, sh, q2, q) ==
  IF IsOdd(q2) /\ (IsOdd(q) \/ ~LowBitsZero(n, sh - 1)) THEN BigAdd(q, <<1>>)
  ELSE q
HalfEven(n, sh, q2) == NearestEven(n, sh, q2, ShiftRight(q2, 1))
ShiftRightEven(n, sh) == HalfEven(n, sh, ShiftRight(n, sh - 1))

\* round-half-even of s * n * 2^e to 53 significant bits (bl is n's bit length)
RoundBits(s, n, e, bl) ==
  Canon(s, IF bl <= MantBits THEN n ELSE ShiftRightEven(n, bl - MantBits),
        IF bl <= MantBits THEN e ELSE e + (bl - MantBits))
Round(s, n, e) == RoundBits(s, n, e, BitLen(n))

FromInt(n) == Canon(IF n >= 0 THEN 1 ELSE -1, BigFromNat(IF n >= 0 THEN n ELSE -n), 0)

FNeg(a) == IF Len(a.m) = 0 THEN a ELSE [a EXCEPT !.s = -a.s]

FMul(a, b) == Round(a.s * b.s, BigMul(a.m, b.m), a.e + b.e)

\* compare magnitudes
MagCmp(a, b) ==
  BigCmp(ShiftLeft(a.m, a.e - Min2(a.e, b.e)), ShiftLeft(b.m, b.e - Min2(a.e, b.e)))

FCmp(a, b) ==
  IF Len(a.m) = 0 /\ Len(b.m) = 0 THEN 0
  ELSE IF Len(a.m) = 0 THEN -b.s
  ELSE IF Len(b.m) = 0 THEN a.s
  ELSE IF a.s # b.s THEN a.s
  ELSE a.s * MagCmp(a, b)

FLeq(a, b) == FCmp(a, b) <= 0
FLt(a, b) == FCmp(a, b) < 0

\* sa * x * 2^e + sb * y * 2^e, rounded; c compares x with y
AddSigned(sa, x, sb, y, e, c) ==
  Round(IF sa = sb \/ c > 0 THEN sa ELSE sb,
        IF sa = sb THEN BigAdd(x, y)
        ELSE IF c >= 0 THEN BigSub(x, y) ELSE BigSub(y, x),
        e)
AddAligned(sa, x, sb, y, e) == AddSigned(sa, x, sb, y, e, BigCmp(x, y))
FAdd(a, b) ==
  IF Len(a.m) = 0 THEN b
  ELSE IF Len(b.m) = 0 THEN a
  ELSE AddAligned(a.s, ShiftLeft(a.m, a.e - Min2(a.e, b.e)),
                  b.s, ShiftLeft(b.m, b.e - Min2(a.e, b.e)), Min2(a.e, b.e))

FSub(a, b) == FAdd(a, FNeg(b))

DivShift == 75
\* twice the quotient, plus one when the division left a remainder
Sticky(d) == BigAdd(BigMulSmall(d.q, 2), IF d.r = 0 THEN <<>> ELSE <<1>>)
\* a / b for a divisor whose odd mantissa is below 2^16
FDiv(a, b) ==
  IF Len(a.m) = 0 THEN FZero
  ELSE Round(a.s * b.s, Sticky(BigDivSmall(ShiftLeft(a.m, DivShift), BigToNat(b.m))),
             a.e - b.e - DivShift - 1)

(***************************************************************************)
(* Conversions between Python values and their model.                      *)
(***************************************************************************)
\* a float literal written as the decimal n / d (d = 10^k): the nearest float
Literal(n, d) == FDiv(FromInt(n), FromInt(d))

\* max(0, x) with the clamp left out
Max0Unclamped(x) == x

\* Python's max(0, x): x when x > 0, else the int 0
Max0(x) == IF FLt(FZero, x) THEN x ELSE FZero

RECURSIVE Pow10(_)
Pow10(d) == IF d = 0 THEN 1 ELSE 10 * Pow10(d - 1)

\* |x| * 10^d rounded to an integer, ties to even: the digits of format(x, ".<d>f")
ScaledMag(n, e) ==
  BigToNat(IF e >= 0 THEN ShiftLeft(n, e) ELSE ShiftRightEven(n, -e))
ScaledDigits(x, d) == ScaledMag(BigMulSmall(x.m, Pow10(d)), x.e)

RECURSIVE ZeroPad(_, _)
ZeroPad(n, width) ==
  IF width = 0 THEN ""
  ELSE ZeroPad(n \div 10, width - 1) \o ToString(n % 10)

\* format(n, ",") of an int n >= 0
RECURSIVE Grouped(_)
Grouped(n) ==
  IF n < 1000 THEN ToString(n)
  ELSE Grouped(n \div 1000) \o "," \o ZeroPad(n % 1000, 3)

\* format(x, ".<d>f") and format(x, ",.<d>f") of a float; v is its scaled digits
FixedDigits(s, v, d, comma) ==
  (IF s < 0 /\ v > 0 THEN "-" ELSE "")
  \o (IF comma THEN Grouped(v \div Pow10(d)) ELSE ToString(v \div Pow10(d)))
  \o (IF d = 0 THEN "" ELSE "." \o ZeroPad(v % Pow10(d), d))
FormatFixed(x, d, comma) == FixedDigits(x.s, ScaledDigits(x, d), d, comma)

(***************************************************************************)
(* Provider data (PROVIDERS, in the dict's insertion order).               *)
(***************************************************************************)
ProviderNames ==
  << "Google Cloud Translation", "Microsoft Azure Translator",
     "Amazon Translate/Transcribe", "DeepL API" >>

PROVIDERS ==
  [ n \in {ProviderNames[i] : i \in 1..Len(ProviderNames)} |->
    CASE n = "Google Cloud Translation" ->
           [ text_free_tier |-> 500000, text_cost_per_million |-> FromInt(20),
             stt_free_tier |-> 60, stt_cost_per_minute |-> Literal(16, 1000),
             ocr_free_tier |-> 1000, ocr_cost_per_1000 |-> Literal(150, 100),
             languages |-> 189, accuracy_text |-> 92, accuracy_stt |-> 95,
             accuracy_ocr |-> 96 ]
      [] n = "Microsoft Azure Translator" ->
           [ text_free_tier |-> 2000000, text_cost_per_million |-> FromInt(10),
             stt_free_tier |-> 300, stt_cost_per_minute |-> Literal(10, 10),
             ocr_free_tier |-> 5000, ocr_cost_per_1000 |-> Literal(150, 100),
             languages |-> 100, accuracy_text |-> 90, accuracy_stt |-> 94,
             accuracy_ocr |-> 95 ]
      [] n = "Amazon Translate/Transcribe" ->
           [ text_free_tier |-> 2000000, text_cost_per_million |-> FromInt(15),
             stt_free_tier |-> 60, stt_cost_per_minute |-> Literal(24, 1000),
             ocr_free_tier |-> 1000, ocr_cost_per_1000 |-> Literal(150, 100),
             languages |-> 75, accuracy_text |-> 89, accuracy_stt |-> 93,
             accuracy_ocr |-> 93 ]
      [] n = "DeepL API" ->
           [ text_free_tier |-> 500000, text_cost_per_million |-> FromInt(25),
             stt_free_tier |-> 0, stt_cost_per_minute |-> FromInt(0),
             ocr_free_tier |-> 0, ocr_cost_per_1000 |-> FromInt(0),
             languages |-> 33, accuracy_text |-> 96, accuracy_stt |-> 0,
             accuracy_ocr |-> 0 ] ]

(***************************************************************************)
(* calculate_costs(provider_data, chars, stt_mins, ocr_imgs): the three    *)
(* volumes are floats; the result is <<text_cost, stt_cost, ocr_cost>>.    *)
(***************************************************************************)
chars_after_free(provider_data, chars) ==
  Max0(FSub(chars, FromInt(provider_data.text_free_tier)))

\* stt_after_free with the operands of the subtraction exchanged
stt_after_free_swapped(provider_data, stt_mins) ==
  Max0(FSub(FromInt(provider_data.stt_free_tier), stt_mins))

stt_after_free(provider_data, stt_mins) ==
  Max0(FSub(stt_mins, FromInt(provider_data.stt_free_tier)))

ocr_after_free(provider_data, ocr_imgs) ==
  Max0(FSub(ocr_imgs, FromInt(provider_data.ocr_free_tier)))

calculate_costs(provider_data, chars, stt_mins, ocr_imgs) ==
  << FMul(FDiv(chars_after_free(provider_data, chars), FromInt(1000000)),
          provider_data.text_cost_per_million),
     FMul(stt_after_free(provider_data, stt_mins),
          provider_data.stt_cost_per_minute),
     FMul(FDiv(ocr_after_free(provider_data, ocr_imgs), FromInt(1000)),
          provider_data.ocr_cost_per_1000) >>

(***************************************************************************)
(* State.  The sidebar widgets' values, then what the last run of the      *)
(* script computed, under the script's own names.                          *)
(***************************************************************************)
VARIABLES
  monthly_users, active_days, sessions_per_day, text_percent, photo_percent,
  text_actions, photo_actions, voice_actions, avg_text_chars, avg_voice_chars,
  selected_provider,
  script_state,
  voice_percent, total_sessions, text_sessions, total_text_chars,
  voice_sessions, total_voice_minutes, total_voice_chars, photo_sessions,
  total_photo_images, total_photo_chars, total_chars_for_translation,
  total_stt_minutes, total_ocr_images,
  provider_data, text_cost, stt_cost, ocr_cost, total_monthly_cost, annual_cost,
  metrics, volume_data, text_free_usage, stt_free_usage, ocr_free_usage,
  all_provider_costs, comparison_df,
  call_args, call_result

widgets_before_photo == << monthly_users, active_days, sessions_per_day, text_percent >>
widgets_after_photo ==
  << text_actions, photo_actions, voice_actions, avg_text_chars, avg_voice_chars,
     selected_provider >>
usage_volumes ==
  << voice_percent, total_sessions, text_sessions, total_text_chars,
     voice_sessions, total_voice_minutes, total_voice_chars, photo_sessions,
     total_photo_images, total_photo_chars, total_chars_for_translation,
     total_stt_minutes, total_ocr_images >>
cost_analysis ==
  << provider_data, text_cost, stt_cost, ocr_cost, total_monthly_cost, annual_cost, metrics,
     volume_data, text_free_usage, stt_free_usage, ocr_free_usage,
     all_provider_costs, comparison_df >>
app_vars ==
  << widgets_before_photo, photo_percent, widgets_after_photo, script_state,
     usage_volumes, cost_analysis >>
call_vars == << call_args, call_result >>
vars == << app_vars, call_vars >>

\* the value of a name the script has not (yet) assigned in the last run
NotRun == "NotRun"

(***************************************************************************)
(* The script, line by line.  The primed widget variables are the values   *)
(* the widgets return in this run.                                         *)
(***************************************************************************)
\* total_sessions with a sum where the code has its second product
TotalSessionsSum(users, days, sessions) == users * days + sessions

TotalSessions(users, days, sessions) == users * days * sessions

VoicePercent(text, photo) == 100 - text - photo

\* total_sessions * (percent / 100)
ChannelSessions(total, percent) ==
  FMul(FromInt(total), FDiv(FromInt(percent), FromInt(100)))

\* sessions * actions * per_action, the last two ints
ActionVolume(sessions, actions, per_action) ==
  FMul(FMul(sessions, FromInt(actions)), FromInt(per_action))

\* "Assume 30 seconds average": the literal 0.5
MinutesPerVoiceAction == Literal(5, 10)

\* voice minutes taking an action for a minute, not half a minute
VoiceMinutesWhole(sessions, actions) == FMul(sessions, FromInt(actions))

\* voice_sessions * voice_actions * 0.5
VoiceMinutes(sessions, actions) ==
  FMul(FMul(sessions, FromInt(actions)), MinutesPerVoiceAction)

\* a + b + c, summed left to right
Sum3(a, b, c) == FAdd(FAdd(a, b), c)

CalculateUsageVolumes ==
  /\ voice_percent' = VoicePercent(text_percent', photo_percent')
  /\ total_sessions' = TotalSessions(monthly_users', active_days', sessions_per_day')
  /\ text_sessions' = ChannelSessions(total_sessions', text_percent')
  /\ total_text_chars' = ActionVolume(text_sessions', text_actions', avg_text_chars')
  /\ voice_sessions' = ChannelSessions(total_sessions', voice_percent')
  /\ total_voice_minutes' = VoiceMinutes(voice_sessions', voice_actions')
  /\ total_voice_chars' =
       ActionVolume(voice_sessions', voice_actions', avg_voice_chars')
  /\ photo_sessions' = ChannelSessions(total_sessions', photo_percent')
  /\ total_photo_images' = FMul(photo_sessions', FromInt(photo_actions'))
  /\ total_photo_chars' = ActionVolume(photo_sessions', photo_actions', 200)
  /\ total_chars_for_translation' =
       Sum3(total_text_chars', total_voice_chars', total_photo_chars')
  /\ total_stt_minutes' = total_voice_minutes'
  /\ total_ocr_images' = total_photo_images'

\* annual_cost over 52 weeks of a quarter of the monthly cost
AnnualCostWeekly(monthly) == FMul(FDiv(monthly, FromInt(4)), FromInt(52))

AnnualCost(monthly) == FMul(monthly, FromInt(12))

\* f"${total_monthly_cost/monthly_users:.3f}"
CostPerUser(monthly, users) ==
  "$" \o FormatFixed(FDiv(monthly, FromInt(users)), 3, FALSE)

\* the 'Billable' column of volume_data
BillableColumn(p, chars, stt_mins, ocr_imgs) ==
  << FormatFixed(Max0(FSub(chars, FromInt(p.text_free_tier))), 0, TRUE),
     FormatFixed(Max0(FSub(stt_mins, FromInt(p.stt_free_tier))), 1, TRUE),
     FormatFixed(Max0(FSub(ocr_imgs, FromInt(p.ocr_free_tier))), 0, TRUE) >>

CostAnalysis ==
  /\ provider_data' = PROVIDERS[selected_provider']
  /\ \E costs \in { calculate_costs(provider_data', total_chars_for_translation',
                                    total_stt_minutes', total_ocr_images') } :
       /\ text_cost' = costs[1]
       /\ stt_cost' = costs[2]
       /\ ocr_cost' = costs[3]
  /\ total_monthly_cost' = Sum3(text_cost', stt_cost', ocr_cost')
  /\ annual_cost' = AnnualCost(total_monthly_cost')
  /\ metrics' =
       ("Monthly Cost" :> "$" \o FormatFixed(total_monthly_cost', 2, FALSE))
       @@ ("Annual Cost" :> "$" \o FormatFixed(annual_cost', 2, FALSE))
       @@ ("Cost per User/Month" :> CostPerUser(total_monthly_cost', monthly_users'))
       @@ ("Total Sessions" :> Grouped(total_sessions'))
  /\ volume_data' =
       ("Metric" :> << "Characters for Translation", "STT Minutes", "OCR Images" >>)
       @@ ("Volume" :> << FormatFixed(total_chars_for_translation', 0, TRUE),
                          FormatFixed(total_stt_minutes', 1, TRUE),
                          FormatFixed(total_ocr_images', 0, TRUE) >>)
       @@ ("Free Tier" :> << Grouped(provider_data'.text_free_tier),
                             Grouped(provider_data'.stt_free_tier),
                             Grouped(provider_data'.ocr_free_tier) >>)
       @@ ("Billable" :> BillableColumn(provider_data', total_chars_for_translation',
                                        total_stt_minutes', total_ocr_images'))

\* free-tier usage that reports 0 where there is no free tier
FreeUsageNone(raw, free_tier) ==
  IF free_tier > 0 THEN FMul(FDiv(raw, FromInt(free_tier)), FromInt(100))
  ELSE FZero

\* (raw / free_tier) * 100 if free_tier > 0 else 100
FreeUsage(raw, free_tier) ==
  IF free_tier > 0 THEN FMul(FDiv(raw, FromInt(free_tier)), FromInt(100))
  ELSE FromInt(100)

ProviderSpecs ==
  /\ text_free_usage' =
       FreeUsage(total_chars_for_translation', provider_data'.text_free_tier)
  /\ stt_free_usage' = FreeUsage(total_stt_minutes', provider_data'.stt_free_tier)
  /\ ocr_free_usage' = FreeUsage(total_ocr_images', provider_data'.ocr_free_tier)

\* the dict appended to all_provider_costs
CostRow(provider_name, provider_info, total_c) ==
  ("Provider" :> provider_name)
  @@ ("Monthly Cost" :> total_c)
  @@ ("Annual Cost" :> FMul(total_c, FromInt(12)))
  @@ ("Text Accuracy" :> provider_info.accuracy_text)
  @@ ("Languages" :> provider_info.languages)
  @@ ("Free Tier (chars)" :> Grouped(provider_info.text_free_tier))

\* total_c = text_c + stt_c + ocr_c
TotalOf(costs) == Sum3(costs[1], costs[2], costs[3])

\* the body of the loop over PROVIDERS.items(): one row of all_provider_costs
ProviderRow(provider_name, provider_info, chars, stt_mins, ocr_imgs) ==
  CostRow(provider_name, provider_info,
          TotalOf(calculate_costs(provider_info, chars, stt_mins, ocr_imgs)))

\* the orders of the catalog's rows
RowOrders ==
  { f \in [1..Len(ProviderNames) -> 1..Len(ProviderNames)] :
      \A i, j \in 1..Len(ProviderNames) : i # j => f[i] # f[j] }

\* DataFrame.sort_values('Monthly Cost') with the default kind='quicksort':
\* ascending by cost, and any order among rows of equal cost (quicksort is
\* not a stable sort)
sort_values(df) ==
  LET leq == [ i \in 1..Len(df) |-> [ j \in 1..Len(df) |->
                 FLeq(df[i]["Monthly Cost"], df[j]["Monthly Cost"]) ] ]
  IN { [ i \in 1..Len(df) |-> df[f[i]] ] :
         f \in { g \in RowOrders :
                   \A i \in 1..(Len(df) - 1) : leq[g[i]][g[i + 1]] } }

AllProvidersComparison ==
  /\ all_provider_costs' =
       [ i \in 1..Len(ProviderNames) |->
           ProviderRow(ProviderNames[i], PROVIDERS[ProviderNames[i]],
                       total_chars_for_translation', total_stt_minutes',
                       total_ocr_images') ]
  /\ comparison_df' \in sort_values(all_provider_costs')

RunScript ==
  /\ script_state' = "ok"
  /\ CalculateUsageVolumes
  /\ CostAnalysis
  /\ ProviderSpecs
  /\ AllProvidersComparison

\* the photo slider raised (its default 20 is above its max_value): the run
\* stops at that line and assigns nothing after it
ScriptRaises ==
  /\ script_state' = "error"
  /\ photo_percent' = NotRun
  /\ voice_percent' = NotRun /\ total_sessions' = NotRun
  /\ text_sessions' = NotRun /\ total_text_chars' = NotRun
  /\ voice_sessions' = NotRun /\ total_voice_minutes' = NotRun
  /\ total_voice_chars' = NotRun /\ photo_sessions' = NotRun
  /\ total_photo_images' = NotRun /\ total_photo_chars' = NotRun
  /\ total_chars_for_translation' = NotRun
  /\ total_stt_minutes' = NotRun /\ total_ocr_images' = NotRun
  /\ provider_data' = NotRun
  /\ text_cost' = NotRun /\ stt_cost' = NotRun /\ ocr_cost' = NotRun
  /\ total_monthly_cost' = NotRun /\ annual_cost' = NotRun
  /\ metrics' = NotRun /\ volume_data' = NotRun
  /\ text_free_usage' = NotRun /\ stt_free_usage' = NotRun
  /\ ocr_free_usage' = NotRun
  /\ all_provider_costs' = NotRun /\ comparison_df' = NotRun

(***************************************************************************)
(* The values the model lets the user give each widget.  Each lies in the  *)
(* widget's [min_value, max_value].                                        *)
(***************************************************************************)
UsersChoices == {100, 1000, 2000, 5000}
DaysChoices == {5, 20}
SessionsPerDayChoices == {3, 4}
TextPercentChoices == {68, 70, 80, 90}
PhotoPercentChoices == {10, 20, 28}
ProviderChoices == {ProviderNames[i] : i \in 1..Len(ProviderNames)}

\* the photo slider: st.sidebar.slider(min_value=0, max_value=100-text_percent,
\* value=20).  It raises when its default is above its max_value; otherwise
\* it returns `photo`, and the script runs on.
Rerun(photo) ==
  IF 20 > 100 - text_percent'
  THEN ScriptRaises
  ELSE photo_percent' = photo /\ RunScript

\* nothing has run: no name of the script is assigned
ScriptNotRun ==
  /\ script_state = "not_run"
  /\ monthly_users = NotRun /\ active_days = NotRun /\ sessions_per_day = NotRun
  /\ text_percent = NotRun /\ photo_percent = NotRun
  /\ text_actions = NotRun /\ photo_actions = NotRun /\ voice_actions = NotRun
  /\ avg_text_chars = NotRun /\ avg_voice_chars = NotRun
  /\ selected_provider = NotRun
  /\ voice_percent = NotRun /\ total_sessions = NotRun
  /\ text_sessions = NotRun /\ total_text_chars = NotRun
  /\ voice_sessions = NotRun /\ total_voice_minutes = NotRun
  /\ total_voice_chars = NotRun /\ photo_sessions = NotRun
  /\ total_photo_images = NotRun /\ total_photo_chars = NotRun
  /\ total_chars_for_translation = NotRun
  /\ total_stt_minutes = NotRun /\ total_ocr_images = NotRun
  /\ provider_data = NotRun
  /\ text_cost = NotRun /\ stt_cost = NotRun /\ ocr_cost = NotRun
  /\ total_monthly_cost = NotRun /\ annual_cost = NotRun
  /\ metrics = NotRun /\ volume_data = NotRun
  /\ text_free_usage = NotRun /\ stt_free_usage = NotRun
  /\ ocr_free_usage = NotRun
  /\ all_provider_costs = NotRun /\ comparison_df = NotRun

Init == ScriptNotRun /\ call_args = NotRun /\ call_result = NotRun

\* the first run of the script: every widget returns its `value=` default
Load ==
  /\ script_state = "not_run"
  /\ monthly_users' = 5000 /\ active_days' = 20 /\ sessions_per_day' = 3
  /\ text_percent' = 70
  /\ text_actions' = 5 /\ photo_actions' = 2 /\ voice_actions' = 3
  /\ avg_text_chars' = 150 /\ avg_voice_chars' = 100
  /\ selected_provider' = ProviderNames[1]
  /\ Rerun(20)
  /\ UNCHANGED call_vars

SetMonthlyUsers(v) ==
  /\ script_state \in {"ok", "error"}
  /\ v \in 100..1000000 /\ v # monthly_users
  /\ monthly_users' = v
  /\ UNCHANGED << active_days, sessions_per_day, text_percent, widgets_after_photo >>
  /\ Rerun(photo_percent)
  /\ UNCHANGED call_vars

SetActiveDays(v) ==
  /\ script_state \in {"ok", "error"}
  /\ v \in 1..30 /\ v # active_days
  /\ active_days' = v
  /\ UNCHANGED << monthly_users, sessions_per_day, text_percent, widgets_after_photo >>
  /\ Rerun(photo_percent)
  /\ UNCHANGED call_vars

SetSessionsPerDay(v) ==
  /\ script_state \in {"ok", "error"}
  /\ v \in 1..20 /\ v # sessions_per_day
  /\ sessions_per_day' = v
  /\ UNCHANGED << monthly_users, active_days, text_percent, widgets_after_photo >>
  /\ Rerun(photo_percent)
  /\ UNCHANGED call_vars

\* a new max_value makes the photo slider a new widget, which starts at its default
SetTextPercent(v) ==
  /\ script_state \in {"ok", "error"}
  /\ v \in 0..100 /\ v # text_percent
  /\ text_percent' = v
  /\ UNCHANGED << monthly_users, active_days, sessions_per_day, widgets_after_photo >>
  /\ Rerun(20)
  /\ UNCHANGED call_vars

SetPhotoPercent(v) ==
  /\ script_state = "ok"
  /\ v \in 0..(100 - text_percent) /\ v # photo_percent
  /\ UNCHANGED << widgets_before_photo, widgets_after_photo >>
  /\ Rerun(v)
  /\ UNCHANGED call_vars

SetTextActions(v) ==
  /\ script_state = "ok"
  /\ v \in 1..50 /\ v # text_actions
  /\ text_actions' = v
  /\ UNCHANGED << widgets_before_photo, photo_actions, voice_actions,
                  avg_text_chars, avg_voice_chars, selected_provider >>
  /\ Rerun(photo_percent)
  /\ UNCHANGED call_vars

SetPhotoActions(v) ==
  /\ script_state = "ok"
  /\ v \in 1..20 /\ v # photo_actions
  /\ photo_actions' = v
  /\ UNCHANGED << widgets_before_photo, text_actions, voice_actions,
                  avg_text_chars, avg_voice_chars, selected_provider >>
  /\ Rerun(photo_percent)
  /\ UNCHANGED call_vars

SetVoiceActions(v) ==
  /\ script_state = "ok"
  /\ v \in 1..10 /\ v # voice_actions
  /\ voice_actions' = v
  /\ UNCHANGED << widgets_before_photo, text_actions, photo_actions,
                  avg_text_chars, avg_voice_chars, selected_provider >>
  /\ Rerun(photo_percent)
  /\ UNCHANGED call_vars

SetAvgTextChars(v) ==
  /\ script_state = "ok"
  /\ v \in 10..2000 /\ v # avg_text_chars
  /\ avg_text_chars' = v
  /\ UNCHANGED << widgets_before_photo, text_actions, photo_actions, voice_actions,
                  avg_voice_chars, selected_provider >>
  /\ Rerun(photo_percent)
  /\ UNCHANGED call_vars

SetAvgVoiceChars(v) ==
  /\ script_state = "ok"
  /\ v \in 10..1000 /\ v # avg_voice_chars
  /\ avg_voice_chars' = v
  /\ UNCHANGED << widgets_before_photo, text_actions, photo_actions, voice_actions,
                  avg_text_chars, selected_provider >>
  /\ Rerun(photo_percent)
  /\ UNCHANGED call_vars

SelectProvider(v) ==
  /\ script_state = "ok"
  /\ v \in DOMAIN PROVIDERS /\ v # selected_provider
  /\ selected_provider' = v
  /\ UNCHANGED << widgets_before_photo, text_actions, photo_actions, voice_actions,
                  avg_text_chars, avg_voice_chars >>
  /\ Rerun(photo_percent)
  /\ UNCHANGED call_vars

Next ==
  \/ Load
  \/ \E v \in UsersChoices : SetMonthlyUsers(v)
  \/ \E v \in DaysChoices : SetActiveDays(v)
  \/ \E v \in SessionsPerDayChoices : SetSessionsPerDay(v)
  \/ \E v \in TextPercentChoices : SetTextPercent(v)
  \/ \E v \in PhotoPercentChoices : SetPhotoPercent(v)
  \/ \E v \in ProviderChoices : SelectProvider(v)

Spec == Init /\ [][Next]_vars

(***************************************************************************)
(* The scenario of one action per session: from the defaults the user sets *)
(* each widget to the scenario's value, in any order.                      *)
(***************************************************************************)
NextScenario ==
  \/ Load
  \/ SetMonthlyUsers(1000)
  \/ SetActiveDays(5)
  \/ SetSessionsPerDay(4)
  \/ SetPhotoPercent(10)
  \/ SetTextActions(1)
  \/ SetPhotoActions(1)
  \/ SetVoiceActions(1)
  \/ SetAvgTextChars(250)
  \/ SetAvgVoiceChars(10)

ScenarioSpec == Init /\ [][NextScenario]_vars

(***************************************************************************)
(* calculate_costs as a function of its arguments: a caller that passes    *)
(* any provider record and any volumes, negative ones included, and        *)
(* changes one argument at a time.                                         *)
(***************************************************************************)
Dimensions == {"text", "stt", "ocr"}
VolumeArg == [text |-> "chars", stt |-> "stt_mins", ocr |-> "ocr_imgs"]
FreeTierKey == [text |-> "text_free_tier", stt |-> "stt_free_tier",
                ocr |-> "ocr_free_tier"]
PriceKey == [text |-> "text_cost_per_million", stt |-> "stt_cost_per_minute",
             ocr |-> "ocr_cost_per_1000"]

MaxVolumeSteps == 2
\* the volumes passed, in tenths, per step
VolumeStep == [text |-> 2500000, stt |-> 305, ocr |-> 5000]
VolumeChoices(dim) ==
  { Literal(k * VolumeStep[dim], 10) : k \in -1..MaxVolumeSteps }
FreeTierChoices == [text |-> {0, 250000}, stt |-> {0, 61}, ocr |-> {0, 500}]
\* the prices, in thousandths
PriceChoices == [text |-> {0, 20000}, stt |-> {0, 24}, ocr |-> {0, 1500}]

\* the call returns its three costs; nothing in it raises
CallOutcome(args) ==
  [ raised |-> FALSE,
    value |-> calculate_costs(args.provider_data, args.chars, args.stt_mins,
                              args.ocr_imgs) ]

\* the first call: a provider record with no free tier, and no volume
CallInit ==
  /\ ScriptNotRun
  /\ call_args =
       [ provider_data |->
           [ text_free_tier |-> 0, text_cost_per_million |-> FromInt(20),
             stt_free_tier |-> 0, stt_cost_per_minute |-> Literal(24, 1000),
             ocr_free_tier |-> 0, ocr_cost_per_1000 |-> Literal(1500, 1000) ],
         chars |-> FZero, stt_mins |-> FZero, ocr_imgs |-> FZero ]
  /\ call_result = CallOutcome(call_args)

CallWithVolume(dim, v) ==
  /\ v # call_args[VolumeArg[dim]]
  /\ call_args' = [call_args EXCEPT ![VolumeArg[dim]] = v]
  /\ call_result' = CallOutcome(call_args')
  /\ UNCHANGED app_vars

CallWithFreeTier(dim, v) ==
  /\ v >= 0 /\ v # call_args.provider_data[FreeTierKey[dim]]
  /\ call_args' = [call_args EXCEPT !.provider_data[FreeTierKey[dim]] = v]
  /\ call_result' = CallOutcome(call_args')
  /\ UNCHANGED app_vars

CallWithPrice(dim, v) ==
  /\ v >= 0 /\ Literal(v, 1000) # call_args.provider_data[PriceKey[dim]]
  /\ call_args' = [call_args EXCEPT !.provider_data[PriceKey[dim]] = Literal(v, 1000)]
  /\ call_result' = CallOutcome(call_args')
  /\ UNCHANGED app_vars

NextCall ==
  \/ \E dim \in Dimensions : \E v \in VolumeChoices(dim) : CallWithVolume(dim, v)
  \/ \E dim \in Dimensions : \E v \in FreeTierChoices[dim] : CallWithFreeTier(dim, v)
  \/ \E dim \in Dimensions : \E v \in PriceChoices[dim] : CallWithPrice(dim, v)

CallSpec == CallInit /\ [][NextCall]_vars

(***************************************************************************)
(* Properties of calculate_costs, checked under CallSpec.                  *)
(***************************************************************************)
CostIndex == [text |-> 1, stt |-> 2, ocr |-> 3]

\* max(0, raw - free_tier) of a dimension, as calculate_costs computes it
AfterFree(dim, args) ==
  CASE dim = "text" -> chars_after_free(args.provider_data, args.chars)
    [] dim = "stt" -> stt_after_free(args.provider_data, args.stt_mins)
    [] dim = "ocr" -> ocr_after_free(args.provider_data, args.ocr_imgs)

NonNegativeVolumes(args) ==
  \A dim \in Dimensions : FLeq(FZero, args[VolumeArg[dim]])

\* C1: for a non-negative volume triple and each dimension on its own, a raw
\* volume at or below the provider's free tier gives a billable usage of
\* exactly 0 and a returned cost of exactly 0, whatever the price
FreeTierClamp ==
  \A dim \in Dimensions :
    ( /\ NonNegativeVolumes(call_args)
      /\ FLeq(call_args[VolumeArg[dim]],
              FromInt(call_args.provider_data[FreeTierKey[dim]])) )
    => /\ AfterFree(dim, call_args) = FZero
       /\ ~call_result.raised
       /\ call_result.value[CostIndex[dim]] = FZero

\* a call with a positive volume equal to the free tier, at a positive price
FreeTierClampWitness ==
  /\ NonNegativeVolumes(call_args)
  /\ \E dim \in Dimensions :
       /\ FLt(FZero, call_args[VolumeArg[dim]])
       /\ call_args[VolumeArg[dim]] =
            FromInt(call_args.provider_data[FreeTierKey[dim]])
       /\ FLt(FZero, call_args.provider_data[PriceKey[dim]])
       /\ call_result.value[CostIndex[dim]] = FZero

\* the two calls differ in nothing but dimension dim's volume
OnlyVolumeChanged(dim, a, b) ==
  /\ a.provider_data = b.provider_data
  /\ \A other \in Dimensions \ {dim} : a[VolumeArg[other]] = b[VolumeArg[other]]

\* the two calls differ in nothing but dimension dim's free tier
OnlyFreeTierChanged(dim, a, b) ==
  /\ a.chars = b.chars /\ a.stt_mins = b.stt_mins /\ a.ocr_imgs = b.ocr_imgs
  /\ \A other \in Dimensions \ {dim} :
       a.provider_data[FreeTierKey[other]] = b.provider_data[FreeTierKey[other]]
  /\ \A any \in Dimensions :
       a.provider_data[PriceKey[any]] = b.provider_data[PriceKey[any]]

\* C2: with non-negative prices and free tiers, from one call to the next a
\* dimension's cost and the sum of the three costs do not fall when only
\* that dimension's volume rises, and do not rise when only its free tier
\* rises
CostMonotone ==
  [][ \A dim \in Dimensions :
        /\ ( /\ OnlyVolumeChanged(dim, call_args, call_args')
             /\ FLeq(call_args[VolumeArg[dim]], call_args'[VolumeArg[dim]]) )
           => /\ FLeq(call_result.value[CostIndex[dim]],
                      call_result'.value[CostIndex[dim]])
              /\ FLeq(TotalOf(call_result.value), TotalOf(call_result'.value))
        /\ ( /\ OnlyFreeTierChanged(dim, call_args, call_args')
             /\ call_args.provider_data[FreeTierKey[dim]]
                  <= call_args'.provider_data[FreeTierKey[dim]] )
           => /\ FLeq(call_result'.value[CostIndex[dim]],
                      call_result.value[CostIndex[dim]])
              /\ FLeq(TotalOf(call_result'.value), TotalOf(call_result.value))
    ]_vars

\* a call past the free tier: its volume and its free tier were both raised
\* from the first call's zeros, and it costs something
CostMonotoneWitness ==
  \E dim \in Dimensions :
    /\ call_args.provider_data[FreeTierKey[dim]] > 0
    /\ FLt(FromInt(call_args.provider_data[FreeTierKey[dim]]),
           call_args[VolumeArg[dim]])
    /\ FLt(FZero, call_result.value[CostIndex[dim]])

\* C9: a call of calculate_costs with a negative volume raises a validation
\* error instead of returning costs
NegativeVolumeRaises ==
  (\E dim \in Dimensions : FLt(call_args[VolumeArg[dim]], FZero))
    => call_result.raised

(***************************************************************************)
(* The scenario of the usage projection, checked under ScenarioSpec.       *)
(***************************************************************************)
\* the scenario's provider record
ScenarioProvider ==
  [ text_free_tier |-> 500000, text_cost_per_million |-> FromInt(20),
    stt_free_tier |-> 60, stt_cost_per_minute |-> Literal(24, 1000),
    ocr_free_tier |-> 1000, ocr_cost_per_1000 |-> Literal(150, 100) ]

\* calculate_costs for the scenario's provider on the volumes of the last run
ScenarioCosts ==
  calculate_costs(ScenarioProvider, total_chars_for_translation,
                  total_stt_minutes, total_ocr_images)

\* users=1000, active_days=5, 4 per day, mix text 70 / voice 20 / ocr 10,
\* 250 chars per text action, each session one text or photo action
ScenarioWidgets ==
  /\ script_state = "ok"
  /\ monthly_users = 1000 /\ active_days = 5 /\ sessions_per_day = 4
  /\ text_percent = 70 /\ photo_percent = 10 /\ voice_percent = 20
  /\ text_actions = 1 /\ photo_actions = 1 /\ avg_text_chars = 250

CatalogIndex(provider_name) ==
  CHOOSE i \in 1..Len(ProviderNames) : ProviderNames[i] = provider_name

\* C4: the comparison table has exactly one row per catalog provider, in
\* ascending order of 'Monthly Cost', and providers of equal monthly cost
\* keep the order they have in PROVIDERS
ComparisonSortedStable ==
  script_state = "ok" =>
    /\ Len(comparison_df) = Len(ProviderNames)
    /\ \A n \in DOMAIN PROVIDERS :
         Cardinality({ i \in 1..Len(comparison_df) :
                         comparison_df[i]["Provider"] = n }) = 1
    /\ \A i, j \in 1..Len(comparison_df) :
         i < j =>
           /\ FLeq(comparison_df[i]["Monthly Cost"], comparison_df[j]["Monthly Cost"])
           /\ comparison_df[i]["Monthly Cost"] = comparison_df[j]["Monthly Cost"]
                => CatalogIndex(comparison_df[i]["Provider"])
                     < CatalogIndex(comparison_df[j]["Provider"])

\* the dimensions a provider does not support: accuracy 0, price 0, no free tier
Unsupported(p) ==
  { dim \in {"stt", "ocr"} :
      /\ p[IF dim = "stt" THEN "accuracy_stt" ELSE "accuracy_ocr"] = 0
      /\ p[PriceKey[dim]] = FZero
      /\ p[FreeTierKey[dim]] = 0 }

\* C5: for a dimension the selected provider does not support, the cost and
\* the billable usage the run reports are zero, whatever the raw volume
UnsupportedDimensionZero ==
  script_state = "ok" =>
    /\ "stt" \in Unsupported(provider_data) =>
         /\ stt_cost = FZero
         /\ volume_data["Billable"][2] = "0.0"
    /\ "ocr" \in Unsupported(provider_data) =>
         /\ ocr_cost = FZero
         /\ volume_data["Billable"][3] = "0"

\* the free-tier usage of a raw volume against a free tier, as C6 states it
UsageAsStated(usage, raw, free_tier) ==
  /\ free_tier = 0 => usage = FromInt(100)
  /\ free_tier > 0 => usage = FMul(FDiv(raw, FromInt(free_tier)), FromInt(100))

\* C6: for each dimension of the selected provider, the free-tier usage is
\* exactly 100 when the free tier is 0, whatever the raw volume, and
\* raw / free tier * 100 when the free tier is positive
FreeTierUsage ==
  script_state = "ok" =>
    /\ UsageAsStated(text_free_usage, total_chars_for_translation,
                     PROVIDERS[selected_provider].text_free_tier)
    /\ UsageAsStated(stt_free_usage, total_stt_minutes,
                     PROVIDERS[selected_provider].stt_free_tier)
    /\ UsageAsStated(ocr_free_usage, total_ocr_images,
                     PROVIDERS[selected_provider].ocr_free_tier)

\* a run with a provider that has no STT free tier, and no voice volume
FreeTierUsageWitness ==
  /\ script_state = "ok"
  /\ PROVIDERS[selected_provider].stt_free_tier = 0
  /\ total_stt_minutes = FZero
  /\ stt_free_usage = FromInt(100)
  /\ PROVIDERS[selected_provider].text_free_tier > 0
  /\ FLt(FZero, total_chars_for_translation)

\* the monthly cost of a provider on the volumes of the last run
MonthlyCostOf(provider_name) ==
  TotalOf(calculate_costs(PROVIDERS[provider_name], total_chars_for_translation,
                          total_stt_minutes, total_ocr_images))

\* the row's costs are those of its provider, the annual 12 times the monthly
RowCostsAsStated(row) ==
  /\ row["Monthly Cost"] = MonthlyCostOf(row["Provider"])
  /\ row["Annual Cost"] = FMul(row["Monthly Cost"], FromInt(12))

\* C7: the annual cost is 12 times the monthly cost, and the monthly cost the
\* sum of the three costs calculate_costs returns, for the selected provider
\* and in every row of the all-providers comparison
AnnualIsTwelveMonths ==
  script_state = "ok" =>
    /\ << text_cost, stt_cost, ocr_cost >> =
         calculate_costs(PROVIDERS[selected_provider], total_chars_for_translation,
                         total_stt_minutes, total_ocr_images)
    /\ total_monthly_cost = MonthlyCostOf(selected_provider)
    /\ annual_cost = FMul(total_monthly_cost, FromInt(12))
    /\ \A i \in 1..Len(all_provider_costs) : RowCostsAsStated(all_provider_costs[i])
    /\ \A i \in 1..Len(comparison_df) : RowCostsAsStated(comparison_df[i])

\* a run in which every provider of the comparison costs something
AnnualIsTwelveMonthsWitness ==
  /\ script_state = "ok"
  /\ FLt(FZero, total_monthly_cost)
  /\ Len(comparison_df) = Len(ProviderNames)
  /\ \A i \in 1..Len(comparison_df) : FLt(FZero, comparison_df[i]["Annual Cost"])

\* C8: a run that follows a run with half its monthly_users, and the same
\* active days and sessions per day, has exactly twice its total_sessions
DoublingUsers ==
  [][ ( /\ script_state = "ok" /\ script_state' = "ok"
        /\ monthly_users' = 2 * monthly_users
        /\ active_days' = active_days
        /\ sessions_per_day' = sessions_per_day )
      => total_sessions' = 2 * total_sessions ]_vars

\* a run with 2000 users, twice the sessions of 1000 users
DoublingUsersWitness ==
  /\ script_state = "ok"
  /\ monthly_users = 2000
  /\ total_sessions = 2 * (1000 * active_days * sessions_per_day)

\* some order of adding the three session counts gives total
SessionsSumTo(total) ==
  \/ Sum3(text_sessions, voice_sessions, photo_sessions) = total
  \/ Sum3(text_sessions, photo_sessions, voice_sessions) = total
  \/ Sum3(voice_sessions, photo_sessions, text_sessions) = total

\* C10: the three percentages sum to exactly 100 and each lies in 0..100, so
\* the three session counts sum to total_sessions and none is negative
FeatureMix ==
  script_state = "ok" =>
    /\ text_percent + photo_percent + voice_percent = 100
    /\ {text_percent, photo_percent, voice_percent} \subseteq 0..100
    /\ SessionsSumTo(FromInt(total_sessions))
    /\ FLeq(FZero, text_sessions)
    /\ FLeq(FZero, voice_sessions)
    /\ FLeq(FZero, photo_sessions)
====
